---- MODULE Spec2Model ----
(***************************************************************************)
(* Model of the version 5.0 binary replay codec of the Snake replay        *)
(* repository: ReplayHandler.encode_moves_bitpacked, encode_to_binary and  *)
(* decode_to_dict (src/ReplayHandler.py).                                  *)
(*                                                                         *)
(* One run of the model is one replay record handed to encode_to_binary    *)
(* (header, then one pack step per segment, then the file write) followed  *)
(* by one decode_to_dict of a file.  Bytes are integers 0..255, a byte     *)
(* string is a sequence of bytes, a Python str of moves is a sequence of   *)
(* one-character strings.                                                  *)
(*                                                                         *)
(* The module also models a direct call of encode_moves_bitpacked with any *)
(* last byte, the game loop of src/Game.py that records a replay and saves *)
(* it, and the version 4.0 codec of src/save_to_binary.py, which shares    *)
(* the record, the file and the outcome variables of the 5.0 codec.        *)
(***************************************************************************)
EXTENDS Integers, Sequences, FiniteSets, TLC

VARIABLES
    byteorder,      \* sys.byteorder of the host: struct's native mode follows it
    data,           \* the dict handed to encode_to_binary
    pc,             \* position of the run: "start", "segments", "written", "raised", "decoded",
                    \* "call", "returned" around a direct call, "playing", "ended" in Game.py
    binary_data,    \* the bytearray built by encode_to_binary
    last_seg_byte,  \* encode_to_binary's last_seg_byte
    seg_i,          \* number of iterations of the segment loop done so far
    output_file,    \* the file at output_path: [exists, bytes]
    raised,         \* the exception that left encode_to_binary, <<>> when none
    input,          \* the bytes read by decode_to_dict (f.read())
    decoded,        \* outcome of decode_to_dict: [status, unpacks, returned]
    call,           \* a direct call of encode_moves_bitpacked: [moves, lastbyte, returned]
    game,           \* the module-level variables of Game.py, one field each
    history         \* the moves Game.py accepted so far: [from, dir, sym, ate] each

vars == <<byteorder, data, pc, binary_data, last_seg_byte, seg_i,
          output_file, raised, input, decoded, call, game, history>>

----------------------------------------------------------------------------
(* Bounds of the model *)

\* total number of moves of a record in the version 4.0 specification
MaxStructMoves == 5
\* number of segments of a record in the version 4.0 specification
MaxStructSegs == 2

\* number of moves of a direct call of encode_moves_bitpacked
MaxCallMoves == 2
\* number of moves Game.py accepts in one game
MaxSteps == 4

\* total number of moves of a record in the segment-stream specification
MaxMoves == 5
\* number of segments of a record in the segment-stream specification
MaxSegs == 2
\* total number of moves of a record in the file specification
MaxFileMoves == 3
\* number of segments of a record in the file specification
MaxFileSegs == 2
\* number of initial snake cells in the record specification
MaxSnake == 2
\* total number of moves of a record in the record specification
MaxRecMoves == 1
\* number of segments of a record in the record specification
MaxRecSegs == 2

----------------------------------------------------------------------------
(* Integer arithmetic of Python on non-negative ints *)

Pow2(n) == 2 ^ n

\* x << n
Shl(x, n) == x * Pow2(n)

\* x >> n
Shr(x, n) == x \div Pow2(n)

RECURSIVE BitAnd(_, _)
\* a & b
BitAnd(a, b) ==
    IF a = 0 \/ b = 0 THEN 0
    ELSE (a % 2) * (b % 2) + 2 * BitAnd(a \div 2, b \div 2)

RECURSIVE BitOr(_, _)
\* a | b
BitOr(a, b) ==
    IF a = 0 THEN b
    ELSE IF b = 0 THEN a
    ELSE (IF a % 2 = 1 \/ b % 2 = 1 THEN 1 ELSE 0) + 2 * BitOr(a \div 2, b \div 2)

\* int.to_bytes(n, "big") for a value that fits n bytes
ToBytesBig(x, n) == [k \in 1..n |-> Shr(x, 8 * (n - k)) % 256]

----------------------------------------------------------------------------
(* struct in native mode: "H" is 2 bytes, "I" is 4 bytes, "B" is 1 byte,    *)
(* multi-byte values in the byte order of the host                          *)

Reverse(s) == [k \in 1..Len(s) |-> s[Len(s) + 1 - k]]

Native(bigEndianBytes) ==
    IF byteorder = "big" THEN bigEndianBytes ELSE Reverse(bigEndianBytes)

\* struct.pack("B", v)
PackB(v) == <<v>>

\* struct.pack("H", v)
PackH(v) == Native(ToBytesBig(v, 2))

\* struct.pack("I", v)
PackI(v) == Native(ToBytesBig(v, 4))

RECURSIVE FromBytesBig(_)
FromBytesBig(bs) ==
    IF bs = <<>> THEN 0
    ELSE 256 * FromBytesBig(SubSeq(bs, 1, Len(bs) - 1)) + bs[Len(bs)]

\* struct.unpack_from(fmt, buf, offset) raises struct.error unless the buffer
\* holds size bytes at offset (offsets count from 0 as in the source)
CanUnpack(buf, offset, size) == offset + size <= Len(buf)

\* struct.unpack_from("B", buf, offset)[0]
UnpackB(buf, offset) == buf[offset + 1]

\* struct.unpack_from("H", buf, offset)[0]
UnpackH(buf, offset) == FromBytesBig(Native(SubSeq(buf, offset + 1, offset + 2)))

\* struct.unpack_from("I", buf, offset)[0]
UnpackI(buf, offset) == FromBytesBig(Native(SubSeq(buf, offset + 1, offset + 4)))

----------------------------------------------------------------------------
(* ReplayHandler.encode_moves_bitpacked *)

\* a mapping that also takes a character that is no move, as 0b00
mappingLenient == [S |-> 0, R |-> 1, L |-> 2, X |-> 0]

\* mapping = {'S': 0b00, 'R': 0b01, 'L': 0b10}
mapping == [S |-> 0, R |-> 1, L |-> 2]

\* a scan over all four groups of lastbyte
ScanRangeAll == 2 * 2

\* number of 2-bit groups of lastbyte the scan looks at: range(3)
ScanRange == 3

\* the ScanLastByte that never finds a Terminator: nothing is carried
ScanLastByteNone(lastbyte, mask, i) == [bits |-> 0, bit_len |-> 0]

RECURSIVE ScanLastByte(_, _, _)
\* the loop "for i in range(3)": the bits of lastbyte down to its lowest 11
\* group among the groups scanned, or nothing when none of them is 11
ScanLastByte(lastbyte, mask, i) ==
    IF i >= ScanRange THEN [bits |-> 0, bit_len |-> 0]
    ELSE IF BitAnd(lastbyte, mask) = mask
         THEN [bits |-> Shr(lastbyte, 2 * i), bit_len |-> 8 - 2 * i]
         ELSE ScanLastByte(lastbyte, Shl(mask, 2), i + 1)

\* index of the first move that is no key of mapping (mapping[move] raises
\* KeyError there), 0 when every move is a key
KeyErrorAt(moves) ==
    IF \A k \in 1..Len(moves) : moves[k] \in DOMAIN mapping THEN 0
    ELSE CHOOSE k \in 1..Len(moves) :
            /\ moves[k] \notin DOMAIN mapping
            /\ \A j \in 1..(k - 1) : moves[j] \in DOMAIN mapping

RECURSIVE AppendMoves(_, _, _)
\* the loop "for move in moves", from move k on
AppendMoves(acc, moves, k) ==
    IF k > Len(moves) THEN acc
    ELSE AppendMoves([bits    |-> BitOr(Shl(acc.bits, 2), mapping[moves[k]]),
                      bit_len |-> acc.bit_len + 2], moves, k + 1)

\* the padding without its outer "% 8": a whole byte of padding when the
\* bits already end on a byte boundary
PadLenNoWrap(bit_len) == 8 - (bit_len % 8)

\* pad = (8 - (bit_len % 8)) % 8
PadLen(bit_len) == (8 - (bit_len % 8)) % 8

\* the bytes returned for moves that are all keys of mapping
PackedBytes(moves, lastbyte) ==
    LET carried == ScanLastByte(lastbyte, 3, 0)
        moved   == AppendMoves(carried, moves, 1)
        bits1   == BitOr(Shl(moved.bits, 2), 3)
        len1    == moved.bit_len + 2
        pad     == PadLen(len1)
        bits2   == Shl(bits1, pad)
        len2    == len1 + pad
    IN  ToBytesBig(bits2, len2 \div 8)

\* encode_moves_bitpacked(moves, lastbyte): the bytes returned, or the
\* KeyError raised by mapping[move]
encode_moves_bitpacked(moves, lastbyte) ==
    LET k == KeyErrorAt(moves)
    IN  IF k # 0
        THEN [raised |-> <<[type |-> "KeyError", key |-> moves[k], at |-> k]>>,
              packed |-> <<>>]
        ELSE [raised |-> <<>>, packed |-> PackedBytes(moves, lastbyte)]

----------------------------------------------------------------------------
(* ReplayHandler.encode_to_binary *)

\* b"SNAK"
Magic == <<83, 78, 65, 75>>

RECURSIVE PackCells(_, _)
\* the loop "for pos in snake": struct.pack("H", pos) of each cell from k on
PackCells(snake, k) ==
    IF k > Len(snake) THEN <<>>
    ELSE PackH(snake[k]) \o PackCells(snake, k + 1)

\* the buffer when the segment loop is entered: the header fields and the
\* byte struct.pack("B", last_seg_byte) the first pack step replaces
HeaderBytes(d) ==
    Magic
    \o PackH(d.result.score)
    \o PackB(d.result.reason)
    \o PackB(d.metadata.map.width) \o PackB(d.metadata.map.height)
    \o PackB(Len(d.metadata.initial.snake))
    \o PackCells(d.metadata.initial.snake, 1)
    \o PackI(d.metadata.seed)

\* the extend without the pop before it
PopExtendNoPop(buf, packed_moves) == buf \o packed_moves

\* binary_data.pop(); binary_data.extend(packed_moves)
PopExtend(buf, packed_moves) == SubSeq(buf, 1, Len(buf) - 1) \o packed_moves

\* the header written without the byte of last_seg_byte after it
EncodeHeaderNoPlaceholder ==
    /\ pc = "start"
    /\ binary_data' = HeaderBytes(data)
    /\ last_seg_byte' = 0
    /\ seg_i' = 0
    /\ pc' = "segments"
    /\ UNCHANGED <<byteorder, data, output_file, raised, input, decoded>>
    /\ UNCHANGED <<call, game, history>>

\* lines 87-111: the header is written, then the byte of last_seg_byte
EncodeHeader ==
    /\ pc = "start"
    /\ binary_data' = HeaderBytes(data) \o PackB(0)
    /\ last_seg_byte' = 0
    /\ seg_i' = 0
    /\ pc' = "segments"
    /\ UNCHANGED <<byteorder, data, output_file, raised, input, decoded>>
    /\ UNCHANGED <<call, game, history>>

\* one iteration of "for seg in segments" that returns from
\* encode_moves_bitpacked
PackSegment ==
    /\ pc = "segments"
    /\ seg_i < Len(data.segments)
    /\ LET r == encode_moves_bitpacked(data.segments[seg_i + 1], last_seg_byte)
       IN  /\ r.raised = <<>>
           /\ last_seg_byte' = r.packed[Len(r.packed)]
           /\ binary_data' = PopExtend(binary_data, r.packed)
    /\ seg_i' = seg_i + 1
    /\ UNCHANGED <<byteorder, data, pc, output_file, raised, input, decoded>>
    /\ UNCHANGED <<call, game, history>>

\* the iteration in which mapping[move] raises: the KeyError leaves
\* encode_to_binary before open(output_path, "wb") is reached
PackSegmentRaises ==
    /\ pc = "segments"
    /\ seg_i < Len(data.segments)
    /\ LET r == encode_moves_bitpacked(data.segments[seg_i + 1], last_seg_byte)
       IN  /\ r.raised # <<>>
           /\ raised' = <<[type |-> r.raised[1].type, key |-> r.raised[1].key,
                           segment |-> seg_i + 1, at |-> r.raised[1].at]>>
    /\ pc' = "raised"
    /\ UNCHANGED <<byteorder, data, binary_data, last_seg_byte, seg_i,
                   output_file, input, decoded>>
    /\ UNCHANGED <<call, game, history>>

\* lines 118-120: the loop is over, the buffer is written to output_path
WriteFile ==
    /\ pc = "segments"
    /\ seg_i = Len(data.segments)
    /\ output_file' = [exists |-> TRUE, bytes |-> binary_data]
    /\ pc' = "written"
    /\ UNCHANGED <<byteorder, data, binary_data, last_seg_byte, seg_i,
                   raised, input, decoded>>
    /\ UNCHANGED <<call, game, history>>

----------------------------------------------------------------------------
(* ReplayHandler.decode_to_dict *)

\* the outcome of a call that raises after n calls of struct.unpack_from
Raises(type, n) == [status |-> type, unpacks |-> n, returned |-> <<>>]

RECURSIVE GroupLoop(_, _, _)
\* the loop "for i in range(4)" over the 2-bit groups of one byte, most
\* significant group first; acc holds the locals segments and moves
GroupLoop(byte, i, acc) ==
    IF i >= 4 THEN acc
    ELSE LET val == BitAnd(Shr(byte, 8 - (i + 1) * 2), 3)
         IN  GroupLoop(byte, i + 1,
                 IF val = 3
                 THEN [segments |-> Append(acc.segments, acc.moves), moves |-> <<>>]
                 ELSE [segments |-> acc.segments,
                       moves    |-> Append(acc.moves,
                                       CASE val = 0 -> "S"
                                         [] val = 1 -> "R"
                                         [] val = 2 -> "L")])

RECURSIVE SegmentLoop(_, _, _)
\* the loop "while offset < lenData"
SegmentLoop(buf, offset, acc) ==
    IF ~(offset < Len(buf)) THEN acc
    ELSE SegmentLoop(buf, offset + 1, GroupLoop(UnpackB(buf, offset), 0, acc))

\* the list comprehension reading snake_len cells from offset on
ReadCells(buf, offset, snake_len) ==
    [i \in 1..snake_len |-> UnpackH(buf, offset + (i - 1) * 2)]

\* a check that lets a file shorter than the magic pass when it is a prefix
\* of the magic
HeaderMismatchPrefix(header) == \E k \in 1..Len(header) : header[k] # Magic[k]

\* header != b"SNAK"
HeaderMismatch(header) == header # Magic

\* decode_to_dict on a file holding the bytes buf
decode_to_dict(buf) ==
    LET header == SubSeq(buf, 1, IF Len(buf) < 4 THEN Len(buf) ELSE 4)
    IN
    IF HeaderMismatch(header) THEN Raises("ValueError: Invalid file format", 0)
    ELSE IF ~CanUnpack(buf, 4, 2) THEN Raises("struct.error", 1)
    ELSE IF ~CanUnpack(buf, 6, 1) THEN Raises("struct.error", 2)
    ELSE IF ~CanUnpack(buf, 7, 2) THEN Raises("struct.error", 3)
    ELSE IF ~CanUnpack(buf, 9, 1) THEN Raises("struct.error", 4)
    ELSE
    LET score     == UnpackH(buf, 4)
        reason    == UnpackB(buf, 6)
        width     == UnpackB(buf, 7)
        height    == UnpackB(buf, 8)
        snake_len == UnpackB(buf, 9)
        whole     == (Len(buf) - 10) \div 2   \* cells the buffer holds in full
    IN
    IF whole < snake_len THEN Raises("struct.error", 4 + whole + 1)
    ELSE
    LET snake  == ReadCells(buf, 10, snake_len)
        offset == 10 + snake_len * 2
    IN
    IF ~CanUnpack(buf, offset, 4) THEN Raises("struct.error", 4 + snake_len + 1)
    ELSE
    LET seed == <<UnpackI(buf, offset)>>    \* the 1-tuple unpack_from returns
        loop == SegmentLoop(buf, offset + 4, [segments |-> <<>>, moves |-> <<>>])
    IN  [status   |-> "ok",
         unpacks  |-> 4 + snake_len + 1 + (Len(buf) - (offset + 4)),
         returned |-> <<[version  |-> "5.0",
                         result   |-> [score |-> score, reason |-> reason],
                         metadata |-> [map     |-> [width |-> width, height |-> height],
                                       seed    |-> seed,
                                       initial |-> [snake |-> snake]],
                         segments |-> loop.segments]>>]

\* one call of decode_to_dict on a file holding the bytes buf
Decode(buf) ==
    /\ pc = "written"
    /\ input' = buf
    /\ decoded' = decode_to_dict(buf)
    /\ pc' = "decoded"
    /\ UNCHANGED <<byteorder, data, binary_data, last_seg_byte, seg_i,
                   output_file, raised>>
    /\ UNCHANGED <<call, game, history>>

\* decode_to_dict of the file encode_to_binary has just written (lines 198-200)
DecodeWritten == Decode(output_file.bytes)

\* a single-bit change of byte k of buf
FlipBit(buf, k, bit) ==
    [buf EXCEPT ![k] = IF (buf[k] \div Pow2(bit)) % 2 = 1
                       THEN buf[k] - Pow2(bit) ELSE buf[k] + Pow2(bit)]

\* files that are not what encode_to_binary wrote: a written file cut short
\* at any length, or with one bit of its magic changed
DamagedFiles(buf) ==
    {SubSeq(buf, 1, n) : n \in 0..(Len(buf) - 1)}
    \cup {FlipBit(buf, k, bit) : k \in 1..4, bit \in 0..7}

\* decode_to_dict of a truncated or corrupted file
DecodeDamaged == \E buf \in DamagedFiles(output_file.bytes) : Decode(buf)

----------------------------------------------------------------------------
(* A direct call of ReplayHandler.encode_moves_bitpacked(moves, lastbyte)  *)

\* no call made
NoCall == [moves |-> <<>>, lastbyte |-> 0, returned |-> <<>>]

\* the call returns packed_moves
EncodeMovesReturns ==
    /\ pc = "call"
    /\ LET r == encode_moves_bitpacked(call.moves, call.lastbyte)
       IN  /\ r.raised = <<>>
           /\ call' = [call EXCEPT !.returned = r.packed]
    /\ pc' = "returned"
    /\ UNCHANGED <<byteorder, data, binary_data, last_seg_byte, seg_i,
                   output_file, raised, input, decoded, game, history>>

\* mapping[move] raises KeyError out of the call
EncodeMovesRaises ==
    /\ pc = "call"
    /\ LET r == encode_moves_bitpacked(call.moves, call.lastbyte)
       IN  /\ r.raised # <<>>
           /\ raised' = <<[type |-> r.raised[1].type, key |-> r.raised[1].key,
                           segment |-> 0, at |-> r.raised[1].at]>>
    /\ pc' = "raised"
    /\ UNCHANGED <<byteorder, data, binary_data, last_seg_byte, seg_i,
                   output_file, input, decoded, call, game, history>>

----------------------------------------------------------------------------
(* Game.py: the game that records a replay and hands it to encode_to_binary *)

WIDTH == 4
HEIGHT == 4
UP == "w"
LEFT == "a"
DOWN == "s"
RIGHT == "d"

\* the four inputs the loop accepts as a move (line 73)
DIRECTIONS == {UP, LEFT, DOWN, RIGHT}

\* Python's None, as a value no cell, score or reason takes
None == 0 - (WIDTH * HEIGHT) - 1

\* start = HEIGHT // 2 * WIDTH
start == (HEIGHT \div 2) * WIDTH

\* the elements of a list
Range(s) == {s[k] : k \in 1..Len(s)}

\* the module-level variables after line 64, with game_seed the value
\* randint drew
NewGame(game_seed) ==
    [snake           |-> <<start, start + 1, start + 2>>,
     apple           |-> start + WIDTH - 1,
     game_seed       |-> game_seed,
     segments        |-> <<>>,
     current_segment |-> <<>>,
     score           |-> 0,
     reason          |-> None,
     last_dir        |-> RIGHT,
     newHead         |-> None]

\* free_cells of newApple(snake, newHead)
free_cells(snake, newHead) ==
    ((0..(WIDTH * HEIGHT - 1)) \ Range(snake)) \ {newHead}

\* the values newApple(snake, newHead) can return: choice(free_cells) is any
\* of the free cells, None when there is none
newApple(snake, newHead) ==
    IF free_cells(snake, newHead) = {} THEN {None} ELSE free_cells(snake, newHead)

\* dirToChar(last_dir, dir), lines 52-58: every dir that is neither last_dir
\* nor its left turn falls into the else branch
dirToChar(last_dir, dir) ==
    IF last_dir = dir THEN "S"
    ELSE IF \/ (last_dir = UP /\ dir = LEFT)
            \/ (last_dir = LEFT /\ dir = DOWN)
            \/ (last_dir = DOWN /\ dir = RIGHT)
            \/ (last_dir = RIGHT /\ dir = UP)
         THEN "L"
         ELSE "R"

\* lines 76-84: the cell the head moves to
NewHeadOf(head, dir) ==
    IF dir = UP THEN head - WIDTH
    ELSE IF dir = LEFT THEN head - 1
    ELSE IF dir = DOWN THEN head + WIDTH
    ELSE head + 1

\* one iteration of the loop on an input that is a direction (lines 67-113):
\* the move is recorded, the apple is eaten or the tail is dropped, then the
\* game-over checks run and the head is appended when the game goes on
GameMove ==
    /\ pc = "playing"
    /\ Len(history) < MaxSteps
    /\ \E dir \in DIRECTIONS :
          LET head            == game.snake[Len(game.snake)]
              nh              == NewHeadOf(head, dir)
              collected_apple == nh = game.apple
              sym             == dirToChar(game.last_dir, dir)
              cs              == Append(game.current_segment, sym)
              snake1          == IF collected_apple THEN game.snake
                                 ELSE Tail(game.snake)
          IN  \E apple1 \in (IF collected_apple THEN newApple(game.snake, nh)
                             ELSE {game.apple}) :
                 LET over == IF Len(snake1) = HEIGHT * WIDTH - 1 THEN 1
                             ELSE IF \/ nh \in Range(snake1)
                                     \/ nh < 0
                                     \/ nh >= WIDTH * HEIGHT THEN 2
                             ELSE IF apple1 = None THEN 4
                             ELSE None
                 IN  /\ game' = [game EXCEPT
                            !.apple           = apple1,
                            !.score           = IF collected_apple THEN @ + 1 ELSE @,
                            !.segments        = IF collected_apple THEN Append(@, cs) ELSE @,
                            !.current_segment = IF collected_apple THEN <<>> ELSE cs,
                            !.last_dir        = dir,
                            !.newHead         = nh,
                            !.reason          = IF over = None THEN @ ELSE over,
                            !.snake           = IF over = None THEN Append(snake1, nh)
                                                ELSE snake1]
                     /\ pc' = IF over = None THEN "playing" ELSE "ended"
                     /\ history' = Append(history,
                            [from |-> game.last_dir, dir |-> dir, sym |-> sym,
                             ate |-> collected_apple, head |-> head])
    /\ UNCHANGED <<byteorder, data, binary_data, last_seg_byte, seg_i,
                   output_file, raised, input, decoded, call>>

\* the iteration on the input "q" (lines 69-71): reason 3, nothing recorded
GameQuit ==
    /\ pc = "playing"
    /\ game' = [game EXCEPT !.reason = 3]
    /\ pc' = "ended"
    /\ UNCHANGED <<byteorder, data, binary_data, last_seg_byte, seg_i,
                   output_file, raised, input, decoded, call, history>>

\* the replay built from the closed segments alone
SaveReplayClosedOnly ==
    /\ pc = "ended"
    /\ data' = [version  |-> "5.0",
                result   |-> [score |-> game.score, reason |-> game.reason],
                metadata |-> [map     |-> [width |-> WIDTH, height |-> HEIGHT],
                              seed    |-> game.game_seed,
                              initial |-> [snake |-> <<start, start + 1, start + 2>>]],
                segments |-> game.segments]
    /\ pc' = "start"
    /\ UNCHANGED <<byteorder, binary_data, last_seg_byte, seg_i,
                   output_file, raised, input, decoded, call, game, history>>

\* lines 115-137: the open segment is closed, the replay dict is built and
\* handed to encode_to_binary
SaveReplay ==
    /\ pc = "ended"
    /\ LET segments == IF game.current_segment # <<>>
                       THEN Append(game.segments, game.current_segment)
                       ELSE game.segments
       IN  /\ game' = [game EXCEPT !.segments = segments]
           /\ data' = [version  |-> "5.0",
                       result   |-> [score |-> game.score, reason |-> game.reason],
                       metadata |-> [map     |-> [width |-> WIDTH, height |-> HEIGHT],
                                     seed    |-> game.game_seed,
                                     initial |-> [snake |-> <<start, start + 1, start + 2>>]],
                       segments |-> segments]
    /\ pc' = "start"
    /\ UNCHANGED <<byteorder, binary_data, last_seg_byte, seg_i,
                   output_file, raised, input, decoded, call, history>>

----------------------------------------------------------------------------
(* save_to_binary.py: the version 4.0 codec, every segment packed on its   *)
(* own bytes after a count of the segments                                  *)

\* mapping of save_to_binary.encode_moves_bitpacked (line 12)
mapping_v4 == [S |-> 0, R |-> 1, L |-> 2]

RECURSIVE MovesLoop(_, _, _)
\* the loop "for move in moves" of lines 16-18, from move k on
MovesLoop(acc, moves, k) ==
    IF k > Len(moves) THEN acc
    ELSE MovesLoop([bits    |-> BitOr(Shl(acc.bits, 2), mapping_v4[moves[k]]),
                    bit_len |-> acc.bit_len + 2], moves, k + 1)

\* save_to_binary.encode_moves_bitpacked(moves) when no mapping[move] raises
packed_v4(moves) ==
    LET moved == MovesLoop([bits |-> 0, bit_len |-> 0], moves, 1)
        bits1 == BitOr(Shl(moved.bits, 2), 3)
        len1  == moved.bit_len + 2
        pad   == (8 - (len1 % 8)) % 8
    IN  ToBytesBig(Shl(bits1, pad), (len1 + pad) \div 8)

\* every move of the string is a key of the mapping
KnownMoves(moves) ==
    \A k \in 1..Len(moves) : moves[k] \in DOMAIN mapping_v4

RECURSIVE SegmentsBytes(_, _)
\* the loop "for seg in segments" of lines 112-114, from segment k on
SegmentsBytes(segments, k) ==
    IF k > Len(segments) THEN <<>>
    ELSE packed_v4(segments[k]) \o SegmentsBytes(segments, k + 1)

\* binary_data of replay_to_binary_struct when the write is reached
StructBytes(d) ==
    <<83, 78, 65, 75>>
    \o PackH(d.result.score)
    \o PackB(d.result.reason)
    \o PackB(d.metadata.map.width) \o PackB(d.metadata.map.height)
    \o PackB(Len(d.metadata.initial.snake))
    \o PackCells(d.metadata.initial.snake, 1)
    \o PackI(d.metadata.seed)
    \o PackH(Len(d.segments))
    \o SegmentsBytes(d.segments, 1)

\* replay_to_binary_struct(data, output_path) that reaches the write
ReplayToBinaryStruct ==
    /\ pc = "start"
    /\ \A i \in 1..Len(data.segments) : KnownMoves(data.segments[i])
    /\ binary_data' = StructBytes(data)
    /\ output_file' = [exists |-> TRUE, bytes |-> StructBytes(data)]
    /\ seg_i' = Len(data.segments)
    /\ pc' = "written"
    /\ UNCHANGED <<byteorder, data, last_seg_byte, raised, input, decoded,
                   call, game, history>>

\* replay_to_binary_struct left by the KeyError of mapping[move]: no file
ReplayToBinaryStructRaises ==
    /\ pc = "start"
    /\ \E i \in 1..Len(data.segments) :
          /\ ~KnownMoves(data.segments[i])
          /\ \A j \in 1..(i - 1) : KnownMoves(data.segments[j])
          /\ LET at == CHOOSE k \in 1..Len(data.segments[i]) :
                          /\ data.segments[i][k] \notin DOMAIN mapping_v4
                          /\ \A l \in 1..(k - 1) :
                                data.segments[i][l] \in DOMAIN mapping_v4
             IN  raised' = <<[type |-> "KeyError", key |-> data.segments[i][at],
                              segment |-> i, at |-> at]>>
          /\ seg_i' = i - 1
    /\ pc' = "raised"
    /\ UNCHANGED <<byteorder, data, binary_data, last_seg_byte, output_file,
                   input, decoded, call, game, history>>

RECURSIVE decode_loop(_, _, _)
\* the loop of decode_moves_bitpacked over the 2-bit groups of packed, the
\* most significant first, from group i on: the shift and mask of line 37
\* taken on the byte that holds the group
decode_loop(packed, i, moves) ==
    IF i >= (Len(packed) * 8) \div 2 THEN moves
    ELSE LET val == BitAnd(Shr(packed[(i \div 4) + 1], 8 - ((i % 4) + 1) * 2), 3)
         IN  IF val = 3 THEN moves
             ELSE decode_loop(packed, i + 1,
                      Append(moves, CASE val = 0 -> "S"
                                      [] val = 1 -> "R"
                                      [] val = 2 -> "L"))

\* decode_moves_bitpacked(packed)
decode_moves_bitpacked(packed) == decode_loop(packed, 0, <<>>)

\* line 159: len(moves) // 4 + (len(moves) % 4 > 0)
Advance(moves) == Len(moves) \div 4 + (IF Len(moves) % 4 > 0 THEN 1 ELSE 0)

\* data[offset:]
SliceFrom(buf, offset) == SubSeq(buf, offset + 1, Len(buf))

RECURSIVE CountedLoop(_, _, _, _)
\* the loop "for _ in range(seg_count)" of lines 156-160, n iterations left
CountedLoop(buf, offset, n, segments) ==
    IF n = 0 THEN segments
    ELSE LET moves == decode_moves_bitpacked(SliceFrom(buf, offset))
         IN  CountedLoop(buf, offset + Advance(moves), n - 1, Append(segments, moves))

\* binary_to_replay_struct on a file holding the bytes buf
binary_to_replay_struct(buf) ==
    LET header == SubSeq(buf, 1, IF Len(buf) < 4 THEN Len(buf) ELSE 4)
    IN
    IF header # <<83, 78, 65, 75>> THEN Raises("ValueError: Invalid file format", 0)
    ELSE IF ~CanUnpack(buf, 4, 2) THEN Raises("struct.error", 1)
    ELSE IF ~CanUnpack(buf, 6, 1) THEN Raises("struct.error", 2)
    ELSE IF ~CanUnpack(buf, 7, 2) THEN Raises("struct.error", 3)
    ELSE IF ~CanUnpack(buf, 9, 1) THEN Raises("struct.error", 4)
    ELSE
    LET snake_len == UnpackB(buf, 9)
        whole     == (Len(buf) - 10) \div 2
    IN
    IF whole < snake_len THEN Raises("struct.error", 4 + whole + 1)
    ELSE
    LET offset == 10 + snake_len * 2
    IN
    IF ~CanUnpack(buf, offset, 4) THEN Raises("struct.error", 4 + snake_len + 1)
    ELSE IF ~CanUnpack(buf, offset + 4, 2) THEN Raises("struct.error", 4 + snake_len + 2)
    ELSE
    LET seg_count == UnpackH(buf, offset + 4)
    IN  [status   |-> "ok",
         unpacks  |-> 4 + snake_len + 2,
         returned |-> <<[version  |-> "4.0",
                         metadata |-> [map     |-> [width  |-> UnpackB(buf, 7),
                                                    height |-> UnpackB(buf, 8)],
                                       initial |-> [snake |-> ReadCells(buf, 10, snake_len)],
                                       seed    |-> UnpackI(buf, offset)],
                         result   |-> [score  |-> UnpackH(buf, 4),
                                       reason |-> UnpackB(buf, 6)],
                         segments |-> CountedLoop(buf, offset + 6, seg_count, <<>>)]>>]

\* binary_to_replay_struct of the file replay_to_binary_struct has just
\* written (lines 181-183)
BinaryToReplayStruct ==
    /\ pc = "written"
    /\ input' = output_file.bytes
    /\ decoded' = binary_to_replay_struct(output_file.bytes)
    /\ pc' = "decoded"
    /\ UNCHANGED <<byteorder, data, binary_data, last_seg_byte, seg_i,
                   output_file, raised, call, game, history>>

----------------------------------------------------------------------------
(* The records handed to encode_to_binary *)

\* the characters a segment string is made of: the three moves, and "X" for
\* any character that is no key of mapping
Moves == {"S", "R", "L"}

Symbols == Moves \cup {"X"}

SeqsUpTo(S, n) == UNION {[1..k -> S] : k \in 0..n}

RECURSIVE SumSeq(_)
SumSeq(s) == IF s = <<>> THEN 0 ELSE s[1] + SumSeq(Tail(s))

\* flat cut into consecutive pieces of the lengths lens
CutAt(flat, lens) ==
    [i \in 1..Len(lens) |->
        SubSeq(flat, SumSeq(SubSeq(lens, 1, i - 1)) + 1, SumSeq(SubSeq(lens, 1, i)))]

\* the lengths of every list of at most maxSegs segments holding at most
\* maxMoves characters in all
SegmentLengths(maxMoves, maxSegs) ==
    {l \in SeqsUpTo(0..maxMoves, maxSegs) : SumSeq(l) <= maxMoves}

\* the n characters of a record, any of them possibly no key of mapping
AnyChars(n) == [1..n -> Symbols]

\* n characters that are moves, except that the last may be no key of mapping
MoveChars(n) ==
    [1..n -> Moves]
    \cup {[flat EXCEPT ![n] = "X"] : flat \in IF n = 0 THEN {} ELSE [1..n -> Moves]}

Record(score, reason, width, height, snake, seed, segments) ==
    [version  |-> "5.0",
     result   |-> [score |-> score, reason |-> reason],
     metadata |-> [map     |-> [width |-> width, height |-> height],
                   seed    |-> seed,
                   initial |-> [snake |-> snake]],
     segments |-> segments]

\* the header of the example of the class docstring
ExampleHeaders == {Record(2, 2, 10, 10, <<40, 41, 42>>, 12345, <<>>)}

\* header fields over their ranges: values whose bytes differ from each other
\* (258 = 0x0102, 513 = 0x0201, 16909060 = 0x01020304) and the extremes; the
\* seeds stay below 2^31, the largest integer TLC computes with
RangeHeaders ==
    {Record(score, 2, wh[1], wh[2], snake, seed, <<>>) :
        score \in {258, 65535},
        wh    \in {<<4, 4>>, <<0, 255>>, <<255, 0>>},
        snake \in SeqsUpTo({8, 513}, MaxSnake),
        seed  \in {0, 16909060, 2147483647}}

----------------------------------------------------------------------------
(* Specifications *)

\* the characters of a record of n characters: any character anywhere, or
\* moves with at most a last character that is no move
Chars(n, anywhere) == IF anywhere THEN AnyChars(n) ELSE MoveChars(n)

\* a call of encode_to_binary is about to start on a record with one of the
\* headers and a list of segments within the bounds
InitWith(headers, anywhere, maxMoves, maxSegs) ==
    /\ byteorder \in {"little", "big"}
    /\ \E h \in headers, lens \in SegmentLengths(maxMoves, maxSegs) :
          \E flat \in Chars(SumSeq(lens), anywhere) :
              data = [h EXCEPT !.segments = CutAt(flat, lens)]
    /\ pc = "start"
    /\ binary_data = <<>>
    /\ last_seg_byte = 0
    /\ seg_i = 0
    /\ output_file = [exists |-> FALSE, bytes |-> <<>>]
    /\ raised = <<>>
    /\ input = <<>>
    /\ decoded = [status |-> "none", unpacks |-> 0, returned |-> <<>>]
    /\ call = NoCall
    /\ game = NewGame(0)
    /\ history = <<>>

Init == InitWith(ExampleHeaders, FALSE, MaxMoves, MaxSegs)

InitRecord == InitWith(RangeHeaders, TRUE, MaxRecMoves, MaxRecSegs)

InitFile == InitWith(ExampleHeaders, TRUE, MaxFileMoves, MaxFileSegs)

Next ==
    \/ EncodeHeader
    \/ PackSegment
    \/ PackSegmentRaises
    \/ WriteFile
    \/ DecodeWritten

NextFile ==
    \/ Next
    \/ DecodeDamaged

\* no record has been handed to encode_to_binary yet
NoData == <<>>

\* the seeds randint(0, 2**32 - 1) can draw, as far as the model goes
GameSeeds == {12345, 2147483647}

\* a direct call of encode_moves_bitpacked with any last byte and any moves
InitPack ==
    /\ byteorder \in {"little", "big"}
    /\ data = NoData
    /\ pc = "call"
    /\ binary_data = <<>>
    /\ last_seg_byte = 0
    /\ seg_i = 0
    /\ output_file = [exists |-> FALSE, bytes |-> <<>>]
    /\ raised = <<>>
    /\ input = <<>>
    /\ decoded = [status |-> "none", unpacks |-> 0, returned |-> <<>>]
    /\ \E b \in 0..255, n \in 0..MaxCallMoves :
          \E m \in AnyChars(n) :
              call = [moves |-> m, lastbyte |-> b, returned |-> <<>>]
    /\ game = NewGame(0)
    /\ history = <<>>

NextPack == EncodeMovesReturns \/ EncodeMovesRaises

\* Game.py from its first line
InitGame ==
    /\ byteorder \in {"little", "big"}
    /\ data = NoData
    /\ pc = "playing"
    /\ binary_data = <<>>
    /\ last_seg_byte = 0
    /\ seg_i = 0
    /\ output_file = [exists |-> FALSE, bytes |-> <<>>]
    /\ raised = <<>>
    /\ input = <<>>
    /\ decoded = [status |-> "none", unpacks |-> 0, returned |-> <<>>]
    /\ call = NoCall
    /\ \E game_seed \in GameSeeds : game = NewGame(game_seed)
    /\ history = <<>>

\* the game, then encode_to_binary of its replay, then decode_to_dict of the
\* file; dirToChar yields moves only, so mapping[move] cannot raise here
NextGame ==
    \/ GameMove
    \/ GameQuit
    \/ SaveReplay
    \/ EncodeHeader
    \/ PackSegment
    \/ WriteFile
    \/ DecodeWritten

\* segment streams: one header, every list of segments within the bounds
Spec == Init /\ [][Next]_vars

\* records: header fields over their ranges
SpecRecord == InitRecord /\ [][Next]_vars

\* files: decode_to_dict also reads truncated and corrupted files
SpecFile == InitFile /\ [][NextFile]_vars

\* version 4.0: one record written by replay_to_binary_struct and read back
InitStruct == InitWith(ExampleHeaders, FALSE, MaxStructMoves, MaxStructSegs)

NextStruct ==
    \/ ReplayToBinaryStruct
    \/ ReplayToBinaryStructRaises
    \/ BinaryToReplayStruct

SpecStruct == InitStruct /\ [][NextStruct]_vars

\* direct calls of encode_moves_bitpacked
SpecPack == InitPack /\ [][NextPack]_vars

\* games of Game.py, saved and read back
SpecGame == InitGame /\ [][NextGame]_vars

----------------------------------------------------------------------------
(* Vocabulary of the properties *)

\* length of the header of a record: 14 + 2n bytes
HeaderLen(d) == 14 + 2 * Len(d.metadata.initial.snake)

\* the bytes of the buffer after the header
SegmentStream == SubSeq(binary_data, HeaderLen(data) + 1, Len(binary_data))

\* the 2-bit groups of a byte string, in stream order
Groups(bytes) ==
    [j \in 1..(4 * Len(bytes)) |->
        (bytes[((j - 1) \div 4) + 1] \div Pow2(2 * (3 - ((j - 1) % 4)))) % 4]

TerminatorCount(groups) == Cardinality({j \in 1..Len(groups) : groups[j] = 3})

\* index of the last Terminator group, 0 when there is none
LastTerminator(groups) ==
    IF \A j \in 1..Len(groups) : groups[j] # 3 THEN 0
    ELSE CHOOSE j \in 1..Len(groups) :
            groups[j] = 3 /\ \A k \in (j + 1)..Len(groups) : groups[k] # 3

\* every character of every segment is one of S, R, L
OnlyMoves(segments) ==
    \A i \in 1..Len(segments) : \A k \in 1..Len(segments[i]) : segments[i][k] \in Moves

\* the last byte of a byte string, -1 when it is empty
LastOf(bytes) == IF bytes = <<>> THEN -1 ELSE bytes[Len(bytes)]

\* a byte that holds a Terminator with nothing but 00 groups below it
TerminatorThenPadding(byte) ==
    \E i \in 0..3 : (byte \div Pow2(2 * i)) % 4 = 3 /\ byte % Pow2(2 * i) = 0

\* the record holds two non-empty segments of moves and has been written
TwoNonEmptyWritten ==
    /\ pc = "written"
    /\ Len(data.segments) = 2
    /\ OnlyMoves(data.segments)
    /\ data.segments[1] # <<>>
    /\ data.segments[2] # <<>>

\* bytes of the two segments packed each from a fresh byte
IndependentLen ==
    Len(PackedBytes(data.segments[1], 0)) + Len(PackedBytes(data.segments[2], 0))

\* bits of a segment with its Terminator
SegmentBits(seg) == 2 * Len(seg) + 2

----------------------------------------------------------------------------
(* Properties *)

\* C1: once a record whose segments are made of S, R, L is written, the
\* segment loop of decode_to_dict run on the packed stream returns exactly
\* the list of segments that was packed.
StreamRoundTrip ==
    (pc = "written" /\ OnlyMoves(data.segments)) =>
        SegmentLoop(binary_data, HeaderLen(data),
                    [segments |-> <<>>, moves |-> <<>>]).segments = data.segments

\* C2: a pack step leaves the stream with as many Terminator groups as pack
\* steps done, and changes no group up to and including the Terminator that
\* was last before the step.
PackOnlyAppends ==
    [][(pc = "segments" /\ seg_i' = seg_i + 1) =>
          LET old == Groups(SegmentStream)
              new == Groups(SegmentStream')
          IN  /\ TerminatorCount(new) = seg_i'
              /\ \A j \in 1..LastTerminator(old) : j <= Len(new) /\ new[j] = old[j]]_vars

\* C3: after every pack step the last byte of the buffer is the byte kept in
\* last_seg_byte, lies in the segment stream, and holds a Terminator with
\* only 00 groups below it; and whatever byte 0..255 a segment is packed
\* onto, the last byte returned holds a Terminator with only 00 groups below.
LastByteInvariant ==
    /\ seg_i >= 1 =>
          /\ Len(binary_data) > HeaderLen(data)
          /\ binary_data[Len(binary_data)] = last_seg_byte
          /\ TerminatorThenPadding(binary_data[Len(binary_data)])
    /\ (pc = "start" /\ Len(data.segments) = 1 /\ OnlyMoves(data.segments)) =>
          \A lastbyte \in 0..255 :
              TerminatorThenPadding(LastOf(PackedBytes(data.segments[1], lastbyte)))

\* C3 witness: two pack steps are done, the second one continued in the byte
\* of the first and left its Terminator in the top group of a new last byte.
LastByteWitness ==
    /\ pc = "segments"
    /\ seg_i = 2
    /\ Len(SegmentStream) = 2
    /\ last_seg_byte = 192
    /\ data.segments[1] # <<>>

\* C4 as stated: two non-empty segments packed back-to-back never take more
\* bytes than packed independently, and take strictly fewer whenever their
\* combined bit length is no multiple of 8.
TailMergingDensity ==
    TwoNonEmptyWritten =>
        /\ Len(SegmentStream) <= IndependentLen
        /\ ((SegmentBits(data.segments[1]) + SegmentBits(data.segments[2])) % 8 # 0
               => Len(SegmentStream) < IndependentLen)

\* C4 amended: two non-empty segments packed back-to-back never take more
\* bytes than packed independently, and take strictly fewer whenever the
\* padding of the two independent packings adds up to at least 8 bits.
TailMergingNeverLonger ==
    TwoNonEmptyWritten =>
        /\ Len(SegmentStream) <= IndependentLen
        /\ (PadLen(SegmentBits(data.segments[1])) + PadLen(SegmentBits(data.segments[2])) >= 8
               => Len(SegmentStream) < IndependentLen)

\* C4 witness: two segments of one move each, whose independent packings
\* hold 4 bits of padding each, written in one byte instead of two.
TailMergingWitness ==
    /\ TwoNonEmptyWritten
    /\ Len(data.segments[1]) = 1
    /\ Len(data.segments[2]) = 1
    /\ PadLen(SegmentBits(data.segments[1])) + PadLen(SegmentBits(data.segments[2])) >= 8
    /\ Len(SegmentStream) < IndependentLen

\* the input of decode_to_dict is the file exactly as encode_to_binary wrote it
DecodedWritten == pc = "decoded" /\ input = output_file.bytes

\* the first four bytes of the input are not "SNAK": fewer than four bytes,
\* or a byte that differs
MagicDiffers ==
    Len(input) < 4 \/ \E k \in 1..4 : input[k] # Magic[k]

\* the groups after the last Terminator of a stream hold a move other than 00
OpenSegment(groups) ==
    \E j \in (LastTerminator(groups) + 1)..Len(groups) : groups[j] \in {1, 2}

\* the first segment holding a character that is no key of mapping, 0 if none
FirstBadSegment(segments) ==
    IF OnlyMoves(segments) THEN 0
    ELSE CHOOSE i \in 1..Len(segments) :
            /\ ~OnlyMoves(<<segments[i]>>)
            /\ OnlyMoves(SubSeq(segments, 1, i - 1))

\* the first character of a segment that is no key of mapping
FirstBadChar(seg) ==
    CHOOSE k \in 1..Len(seg) : seg[k] \notin Moves /\ \A j \in 1..(k - 1) : seg[j] \in Moves

\* C5: decode_to_dict of the file encode_to_binary wrote returns a record
\* with the score, reason, width, height, initial snake, seed (the value held
\* by the returned 1-tuple) and segments of the record that was encoded.
RecordRoundTrip ==
    DecodedWritten =>
        /\ decoded.status = "ok"
        /\ LET r == decoded.returned[1]
           IN  /\ r.result.score = data.result.score
               /\ r.result.reason = data.result.reason
               /\ r.metadata.map.width = data.metadata.map.width
               /\ r.metadata.map.height = data.metadata.map.height
               /\ r.metadata.initial.snake = data.metadata.initial.snake
               /\ r.metadata.seed = <<data.metadata.seed>>
               /\ r.segments = data.segments

\* C6: decode_to_dict of a file with a whole header whose segment stream ends
\* with an open segment fails with TruncatedSegmentStream and returns no
\* record.
TruncatedStreamIsError ==
    (/\ pc = "decoded"
     /\ ~MagicDiffers
     /\ Len(input) >= HeaderLen(data)
     /\ SubSeq(input, 1, HeaderLen(data)) = SubSeq(output_file.bytes, 1, HeaderLen(data))
     /\ OpenSegment(Groups(SubSeq(input, HeaderLen(data) + 1, Len(input)))))
    => (decoded.status = "TruncatedSegmentStream" /\ decoded.returned = <<>>)

\* C7: decode_to_dict of an input whose first four bytes are not "SNAK"
\* raises ValueError("Invalid file format") before any call of
\* struct.unpack_from and returns no record.
InvalidMagicFails ==
    (pc = "decoded" /\ MagicDiffers) =>
        /\ decoded.status = "ValueError: Invalid file format"
        /\ decoded.unpacks = 0
        /\ decoded.returned = <<>>

\* C7 witness: a file as long as the written one, with one bit of its magic
\* changed, has been decoded.
InvalidMagicWitness ==
    /\ pc = "decoded"
    /\ MagicDiffers
    /\ Len(input) = Len(output_file.bytes)
    /\ SubSeq(input, 5, Len(input)) = SubSeq(output_file.bytes, 5, Len(input))

\* C8: a record with a character outside S, R, L in some segment never gets
\* a file written; encode_to_binary stops in the segment loop, at the first
\* such segment, with the KeyError of the first such character; a record
\* without one raises nothing.
UnrepresentableSymbolFails ==
    LET bad == FirstBadSegment(data.segments)
    IN  IF bad = 0 THEN raised = <<>> /\ pc # "raised"
        ELSE /\ ~output_file.exists
             /\ pc \in {"start", "segments", "raised"}
             /\ seg_i < bad
             /\ pc = "raised" =>
                   /\ seg_i = bad - 1
                   /\ raised = <<[type    |-> "KeyError",
                                  key     |-> "X",
                                  segment |-> bad,
                                  at      |-> FirstBadChar(data.segments[bad])]>>
             /\ pc # "raised" => raised = <<>>

\* C8 witness: the KeyError was raised in the second segment, after a first
\* segment of moves was packed, at a character that moves precede.
UnrepresentableSymbolWitness ==
    /\ pc = "raised"
    /\ seg_i = 1
    /\ data.segments[1] # <<>>
    /\ raised[1].segment = 2
    /\ raised[1].at = 2
    /\ ~output_file.exists

\* C9: the written file holds the magic at bytes 0..3, the score at 4..5, the
\* reason at 6, width at 7, height at 8, n at 9, the n cells at 10..9+2n, the
\* seed at 10+2n..13+2n and after them only bytes of the pack steps: 14+2n
\* bytes in all for a record without segments; decode_to_dict reads the
\* fields back from these offsets.
WireLayout ==
    (pc \in {"written", "decoded"} /\ OnlyMoves(data.segments)) =>
        LET f == output_file.bytes
            snake == data.metadata.initial.snake
            n == Len(snake)
        IN  /\ Len(f) >= 14 + 2 * n
            /\ SubSeq(f, 1, 4) = Magic
            /\ SubSeq(f, 5, 6) = PackH(data.result.score)
            /\ f[7] = data.result.reason
            /\ f[8] = data.metadata.map.width
            /\ f[9] = data.metadata.map.height
            /\ f[10] = n
            /\ \A i \in 1..n : SubSeq(f, 9 + 2 * i, 10 + 2 * i) = PackH(snake[i])
            /\ SubSeq(f, 11 + 2 * n, 14 + 2 * n) = PackI(data.metadata.seed)
            /\ (data.segments = <<>> => Len(f) = 14 + 2 * n)
            /\ (data.segments # <<>> => Len(f) > 14 + 2 * n)
            /\ DecodedWritten =>
                  /\ decoded.status = "ok"
                  /\ decoded.returned[1].result.score = data.result.score
                  /\ decoded.returned[1].result.reason = data.result.reason
                  /\ decoded.returned[1].metadata.map = data.metadata.map
                  /\ decoded.returned[1].metadata.initial.snake = snake
                  /\ decoded.returned[1].metadata.seed[1] = data.metadata.seed

\* C10: the score, every snake cell and the seed are written most significant
\* byte first, and decode_to_dict returns the values their bytes hold most
\* significant byte first.
BigEndianFields ==
    (pc \in {"written", "decoded"}) =>
        LET f == output_file.bytes
            snake == data.metadata.initial.snake
            n == Len(snake)
        IN  /\ SubSeq(f, 5, 6) = ToBytesBig(data.result.score, 2)
            /\ \A i \in 1..n : SubSeq(f, 9 + 2 * i, 10 + 2 * i) = ToBytesBig(snake[i], 2)
            /\ SubSeq(f, 11 + 2 * n, 14 + 2 * n) = ToBytesBig(data.metadata.seed, 4)
            /\ DecodedWritten =>
                  /\ decoded.status = "ok"
                  /\ decoded.returned[1].result.score = FromBytesBig(SubSeq(f, 5, 6))
                  /\ \A i \in 1..n :
                        decoded.returned[1].metadata.initial.snake[i]
                            = FromBytesBig(SubSeq(f, 9 + 2 * i, 10 + 2 * i))
                  /\ decoded.returned[1].metadata.seed[1]
                        = FromBytesBig(SubSeq(f, 11 + 2 * n, 14 + 2 * n))

----------------------------------------------------------------------------
(* C11 *)

\* the record whose segments are "SS" and "R"
TwoThenOne == data.segments = <<<<"S", "S">>, <<"R">>>>

\* C11: the segments [[S, S], [R]] packed into an empty stream occupy 10
\* bits: after the first pack step the stream is the one byte 00 00 11 00,
\* after the second it is exactly the two bytes 00 00 11 01 and 11 00 00 00,
\* and the written file carries these two bytes after the header, not one
\* byte and not three.
TenBitsTwoBytes ==
    TwoThenOne =>
        /\ (pc = "segments" /\ seg_i = 1) => SegmentStream = <<12>>
        /\ (pc = "segments" /\ seg_i = 2) => SegmentStream = <<13, 192>>
        /\ pc \in {"written", "decoded"} =>
               /\ Len(SegmentStream) = 2
               /\ Len(output_file.bytes) = HeaderLen(data) + 2
               /\ SubSeq(output_file.bytes, HeaderLen(data) + 1,
                         HeaderLen(data) + 2) = SegmentStream

\* the record with the segments "SS" and "R" has been written
TenBitsWitness ==
    /\ TwoThenOne
    /\ pc = "written"
    /\ output_file.exists
    /\ Len(SegmentStream) = 2

----------------------------------------------------------------------------
(* C12 *)

\* the group of byte b at index i counted from the least significant end
GroupFromLow(b, i) == (b \div Pow2(2 * i)) % 4

\* the indices among 0, 1, 2 whose group of b is 11
TerminatorIndices(b) == {i \in 0..2 : GroupFromLow(b, i) = 3}

\* the smallest of them
SmallestIndex(b) ==
    CHOOSE i \in TerminatorIndices(b) : \A k \in TerminatorIndices(b) : i <= k

\* what the scan is said to commit of byte b: the bits b >> 2i, 8 - 2i of them
Committed(b) ==
    IF TerminatorIndices(b) = {} THEN [bits |-> 0, bit_len |-> 0]
    ELSE [bits    |-> b \div Pow2(2 * SmallestIndex(b)),
          bit_len |-> 8 - 2 * SmallestIndex(b)]

\* the 2-bit groups of the value bits written on bit_len bits
GroupsOfBits(bits, bit_len) ==
    [j \in 1..(bit_len \div 2) |-> (bits \div Pow2(bit_len - 2 * j)) % 4]

----------------------------------------------------------------------------
(* C13 *)

\* the first 14 + 2n bytes of a byte string
HeaderOf(bytes) == SubSeq(bytes, 1, HeaderLen(data))

\* C13: whatever the header holds (the last byte of seed in particular) and
\* whatever the list of segments, the empty list included, the first 14 + 2n
\* bytes of the buffer and of the written file are the header as it was
\* written before the segment loop; the first pack step starts on a fresh
\* byte after the header, so that the stream after it is what the first
\* segment packs to on its own, and no step takes a byte of the header away.
HeaderNeverTouched ==
    /\ pc \in {"segments", "written", "decoded", "raised"} =>
          /\ Len(binary_data) > HeaderLen(data)
          /\ HeaderOf(binary_data) = HeaderBytes(data)
    /\ (pc = "segments" /\ seg_i = 0) => SegmentStream = <<0>>
    /\ (pc = "segments" /\ seg_i = 1) =>
          SegmentStream = PackedBytes(data.segments[1], 0)
    /\ output_file.exists =>
          /\ Len(output_file.bytes) > HeaderLen(data)
          /\ HeaderOf(output_file.bytes) = HeaderBytes(data)

\* a record with segments has been written whose header ends in a byte that
\* holds an 11 group among its three lower groups
HeaderNeverTouchedWitness ==
    /\ pc = "written"
    /\ output_file.exists
    /\ data.segments # <<>>
    /\ TerminatorIndices(HeaderBytes(data)[HeaderLen(data)]) # {}

----------------------------------------------------------------------------
(* C14 *)

RECURSIVE Concat(_)
\* the segments of a list joined in order
Concat(segs) == IF segs = <<>> THEN <<>> ELSE Head(segs) \o Concat(Tail(segs))

\* the symbols of the accepted moves, in the order they were made
AcceptedSymbols == [k \in 1..Len(history) |-> history[k].sym]

\* number of the accepted move that is the last one of closed segment i
ClosingMove(i) == Len(Concat(SubSeq(game.segments, 1, i)))

\* the replay has been handed to encode_to_binary
Saved == pc \in {"start", "segments", "written", "decoded"}

\* C14: at the top of every iteration of the game loop the number of closed
\* segments equals the score, and every closed segment is non-empty and ends
\* with the move that ate an apple, the only such move in it; once the loop
\* is over, the segments handed to encode_to_binary, joined in order, are
\* the symbols of every accepted move, the final fatal move included.
SegmentBookkeeping ==
    /\ pc = "playing" =>
          /\ Len(game.segments) = game.score
          /\ \A i \in 1..Len(game.segments) :
                /\ game.segments[i] # <<>>
                /\ \A k \in (ClosingMove(i - 1) + 1)..ClosingMove(i) :
                      history[k].ate <=> k = ClosingMove(i)
          /\ Concat(game.segments) \o game.current_segment = AcceptedSymbols
    /\ Saved =>
          /\ data.segments = game.segments
          /\ Concat(data.segments) = AcceptedSymbols
          /\ \A i \in 1..Len(data.segments) : data.segments[i] # <<>>

\* a game that ate an apple and then died on a move that ate none has been
\* handed to encode_to_binary: one closed segment and the open one
SegmentBookkeepingWitness ==
    /\ pc = "start"
    /\ game.reason = 2
    /\ game.score = 1
    /\ Len(data.segments) = 2
    /\ Len(history) > 2
    /\ ~history[Len(history)].ate

----------------------------------------------------------------------------
(* C15 *)

\* the direction a quarter turn to the left of heading
LeftTurnOf(heading) ==
    CASE heading = UP -> LEFT
      [] heading = LEFT -> DOWN
      [] heading = DOWN -> RIGHT
      [] heading = RIGHT -> UP

\* the direction a quarter turn to the right of heading
RightTurnOf(heading) ==
    CASE heading = UP -> RIGHT
      [] heading = RIGHT -> DOWN
      [] heading = DOWN -> LEFT
      [] heading = LEFT -> UP

\* C15: every accepted move is recorded as S exactly when its direction is
\* the heading, as L exactly when it is the quarter turn to the left of the
\* heading and as R exactly when it is the quarter turn to the right, so
\* that no two accepted moves of different directions entered from one
\* heading get the same symbol.
TurnSymbolsExact ==
    /\ \A k \in 1..Len(history) :
          /\ history[k].sym = "S" <=> history[k].dir = history[k].from
          /\ history[k].sym = "L" <=> history[k].dir = LeftTurnOf(history[k].from)
          /\ history[k].sym = "R" <=> history[k].dir = RightTurnOf(history[k].from)
    /\ \A j, k \in 1..Len(history) :
          (history[j].from = history[k].from /\ history[j].dir # history[k].dir)
              => history[j].sym # history[k].sym

----------------------------------------------------------------------------
(* C16 *)

\* the cells of the grid
Cells == 0..(WIDTH * HEIGHT - 1)

\* distance between two numbers
Dist(a, b) == IF a >= b THEN a - b ELSE b - a

\* two cells of the grid that share a side
Adjacent(a, b) ==
    /\ a \in Cells
    /\ b \in Cells
    /\ Dist(a % WIDTH, b % WIDTH) + Dist(a \div WIDTH, b \div WIDTH) = 1

\* C16: after any accepted moves either the game has ended with reason 2 or
\* the new head is a cell of the grid that shares a side with the previous
\* head: while the game goes on the head never passes from the last column
\* of a row to the first column of the next row, or back.
GridContainment ==
    history # <<>> =>
        \/ game.reason = 2
        \/ Adjacent(history[Len(history)].head, game.newHead)

----------------------------------------------------------------------------
(* C17 *)

\* C17: binary_to_replay_struct of the file replay_to_binary_struct wrote
\* returns the segment list that was written, segments of 0, 4, 8.. moves
\* included.
StructRoundTrip ==
    (pc = "decoded" /\ decoded.status = "ok") =>
        decoded.returned[1].segments = data.segments

====
